---------------------------- MODULE Spec2Model ----------------------------
(***************************************************************************)
(* A model of matroska_cache's Redis backend (backends/redis.py): the      *)
(* data keys, the reverse-dependency index, the TTL bookkeeping and the    *)
(* optimistic (WATCH / MULTI / EXEC) transactions of put and invalidate.   *)
(*                                                                         *)
(* Spec      : a single client; every call of the backend is one step, and *)
(*             time passes between the calls.                              *)
(* SpecData  : the same, with get and has and with payloads of every kind, *)
(*             for one key and one dependency.                             *)
(* SpecC     : a client that puts and a client that invalidates; every     *)
(*             command sent to the store is one step, and time passes      *)
(*             between the steps.                                          *)
(* SpecRetry : a client that puts one entry again and again and a client   *)
(*             that invalidates its dependency again and again.            *)
(* SpecLog   : the same, with logging switched on and off.                 *)
(* SpecBusy  : a client that puts one entry while the other keeps putting  *)
(*             another entry with the same dependency and invalidating it. *)
(* SpecPuts  : two clients that put with the same dependency.              *)
(*                                                                         *)
(* and of Scopes (dep/scopes.py):                                          *)
(*                                                                         *)
(* SpecScopes  : extractors are registered; condition() and                *)
(*               object_invalidates() are called.                          *)
(* SpecListing : listings are cached with the dependencies of condition()  *)
(*               and invalidated by invalidate_for() and the kill switch.  *)
(*                                                                         *)
(* and of sa_dependencies (sa_dependencies.py):                            *)
(*                                                                         *)
(* SpecSA : one call, for a root and a plucking map.                       *)
(***************************************************************************)
EXTENDS Integers, Sequences, FiniteSets, TLC

(***************************************************************************)
(* Bounds of the model.                                                    *)
(***************************************************************************)
\* the largest `expires` (in seconds) a put is given
MaxTTL == 2

\* cache keys (the `key` argument of get/has/delete/put)
Keys == {"k1", "k2"}
\* canonical dependency strings (dependency.key())
Deps == {"d1", "d2"}
\* the values of `expires` that puts use
TTLs == 1..MaxTTL

(***************************************************************************)
(* Python values that are cached.  A string is a sequence of characters;   *)
(* the items of a list or of a tuple are the digits 0..9.                  *)
(***************************************************************************)
PyStr(s) == [t |-> "str", s |-> s, items |-> <<>>]
PyList(items) == [t |-> "list", s |-> <<>>, items |-> items]
PyTuple(items) == [t |-> "tuple", s |-> <<>>, items |-> items]
PyInt(n) == [t |-> "int", s |-> <<>>, items |-> <<n>>]
PyNone == [t |-> "none", s |-> <<>>, items |-> <<>>]

\* a JSON value: what json.loads can return
IsJsonValue(v) == v.t \in {"str", "list", "int", "none"}

\* the payloads that puts store: plain strings (the empty one, and one that
\* starts with the letter of the JSON tag), JSON values, and a tuple, which
\* json.dumps accepts although it is no JSON value
Payloads ==
    {PyStr(<<>>), PyStr(<<"j", "1">>), PyList(<<1, 2>>), PyInt(7), PyNone,
     PyTuple(<<1, 2>>)}
\* the payload of the puts whose payload does not matter
Payload0 == PyList(<<1, 2>>)

(***************************************************************************)
(* json.dumps / json.loads on these values.                                *)
(***************************************************************************)
Digits == <<"0", "1", "2", "3", "4", "5", "6", "7", "8", "9">>
DigitChar(n) == Digits[n + 1]
CharDigit(c) == CHOOSE n \in 0..9 : Digits[n + 1] = c

RECURSIVE JoinItems(_)
JoinItems(items) ==
    IF items = <<>> THEN <<>>
    ELSE IF Len(items) = 1 THEN <<DigitChar(items[1])>>
    ELSE <<DigitChar(items[1]), ",", " ">> \o JoinItems(Tail(items))

json_dumps(v) ==
    CASE v.t = "int" -> <<DigitChar(v.items[1])>>
      [] v.t \in {"list", "tuple"} -> <<"[">> \o JoinItems(v.items) \o <<"]">>
      [] v.t = "none" -> <<"n", "u", "l", "l">>
      [] v.t = "str" -> <<"\"">> \o v.s \o <<"\"">>

RECURSIVE ParseItems(_)
ParseItems(txt) ==
    IF txt = <<>> THEN <<>>
    ELSE IF Len(txt) = 1 THEN <<CharDigit(txt[1])>>
    ELSE <<CharDigit(txt[1])>> \o ParseItems(SubSeq(txt, 4, Len(txt)))

json_loads(txt) ==
    CASE txt = <<"n", "u", "l", "l">> -> PyNone
      [] txt[1] = "[" -> PyList(ParseItems(SubSeq(txt, 2, Len(txt) - 1)))
      [] txt[1] = "\"" -> PyStr(SubSeq(txt, 2, Len(txt) - 1))
      [] OTHER -> PyInt(CharDigit(txt[1]))

(***************************************************************************)
(* serialize / unserialize: a one-character format tag, then the text.     *)
(***************************************************************************)
DATA_STRING == "s"
DATA_JSON == "j"

serialize(pdata) ==
    IF pdata.t = "str" THEN <<DATA_STRING>> \o pdata.s
    ELSE <<DATA_JSON>> \o json_dumps(pdata)

\* a faulty variant: the format tag is not stripped from a plain string
unserialize_keeps_tag(blob) ==
    IF blob[1] = DATA_STRING THEN PyStr(blob)
    ELSE IF blob[1] = DATA_JSON THEN json_loads(Tail(blob))
    ELSE PyNone

unserialize(blob) ==
    LET format == blob[1]
        rest == Tail(blob)
    IN  IF format = DATA_STRING THEN PyStr(rest)
        ELSE IF format = DATA_JSON THEN json_loads(rest)
        ELSE PyNone

(***************************************************************************)
(* The Redis store.                                                        *)
(*   data[k] : the string under the data key of k (live, val, ttl)         *)
(*   rdep[d] : the members of the set under the rdep key of d; Redis has   *)
(*             no empty sets: a key with no members does not exist         *)
(*   rttl[d] : what TTL answers for that key: -2 no such key, -1 no        *)
(*             expiry, else the seconds left                               *)
(***************************************************************************)
NoData == [live |-> FALSE, val |-> <<>>, ttl |-> 0]

EmptyRedis ==
    [data |-> [k \in Keys |-> NoData],
     rdep |-> [d \in Deps |-> {}],
     rttl |-> [d \in Deps |-> -2]]

\* the name of a Redis key (the prefix is the same for every key)
_key(type, name) == <<type, name>>

DataKeys(ks) == {_key("data", k) : k \in ks}
RdepKeys(ds) == {_key("rdep", d) : d \in ds}

\* GET
Get(r, key) == r.data[key]
\* EXISTS
Exists(r, key) == IF r.data[key].live THEN 1 ELSE 0
\* a faulty variant: a key that exists keeps its expiry when that is longer
Setex_keeps_longer_ttl(r, key, seconds, val) ==
    [r EXCEPT !.data[key] =
        [live |-> TRUE, val |-> val,
         ttl |-> IF @.live /\ @.ttl > seconds THEN @.ttl ELSE seconds]]

\* SETEX key seconds value
Setex(r, key, seconds, val) ==
    [r EXCEPT !.data[key] = [live |-> TRUE, val |-> val, ttl |-> seconds]]
\* SADD: creates the set, with no expiry, when the key does not exist
Sadd(r, dep, key) ==
    [r EXCEPT !.rdep[dep] = @ \cup {key},
              !.rttl[dep] = IF @ = -2 THEN -1 ELSE @]
\* SMEMBERS
Smembers(r, dep) == r.rdep[dep]
\* TTL
Ttl(r, dep) == r.rttl[dep]
\* EXPIRE: nothing happens when the key does not exist
Expire(r, dep, seconds) ==
    IF r.rttl[dep] = -2 THEN r ELSE [r EXCEPT !.rttl[dep] = seconds]
\* UNLINK of data keys `ks` and rdep keys `ds`
Unlink(r, ks, ds) ==
    [data |-> [k \in Keys |-> IF k \in ks THEN NoData ELSE r.data[k]],
     rdep |-> [d \in DOMAIN r.rdep |-> IF d \in ds THEN {} ELSE r.rdep[d]],
     rttl |-> [d \in DOMAIN r.rttl |-> IF d \in ds THEN -2 ELSE r.rttl[d]]]

\* One second passes: every expiry comes one second closer, and a key whose
\* time is up is gone.
Elapse(r) ==
    [data |-> [k \in Keys |->
                 IF r.data[k].live /\ r.data[k].ttl > 1
                 THEN [r.data[k] EXCEPT !.ttl = @ - 1] ELSE NoData],
     rdep |-> [d \in DOMAIN r.rdep |->
                 IF r.rttl[d] = 1 THEN {} ELSE r.rdep[d]],
     rttl |-> [d \in DOMAIN r.rttl |->
                 IF r.rttl[d] = 1 THEN -2
                 ELSE IF r.rttl[d] > 1 THEN r.rttl[d] - 1 ELSE r.rttl[d]]]

RECURSIVE SaddAll(_, _, _)
SaddAll(r, deps, key) ==
    IF deps = {} THEN r
    ELSE LET d == CHOOSE x \in deps : TRUE
         IN  SaddAll(Sadd(r, d, key), deps \ {d}, key)

RECURSIVE ExpireAll(_, _, _)
ExpireAll(r, deps, seconds) ==
    IF deps = {} THEN r
    ELSE LET d == CHOOSE x \in deps : TRUE
         IN  ExpireAll(Expire(r, d, seconds), deps \ {d}, seconds)

(***************************************************************************)
(* RedisBackend, one call at a time.                                       *)
(***************************************************************************)
NotInCache == [raised |-> TRUE, value |-> PyNone]
Returned(v) == [raised |-> FALSE, value |-> v]

get(r, key) ==
    LET d == Get(r, key)
    IN  IF ~d.live THEN NotInCache ELSE Returned(unserialize(d.val))

has(r, key) == Exists(r, key) = 1

\* a faulty variant: the key is unlinked under a name that no key has
delete_other_name(r, key) == Unlink(r, {}, {})

\* a faulty variant: delete also removes the index keys that list the key
delete_with_index(r, key) ==
    Unlink(r, {key}, {dep \in DOMAIN r.rdep : key \in r.rdep[dep]})

delete(r, key) == Unlink(r, {key}, {})

\* a faulty variant: the expiry is set to `expires` whatever the key's TTL is
expire_deps_always(deps, dep_ttls, expires) == deps

\* the index keys whose TTL is shorter than `expires`
expire_deps(deps, dep_ttls, expires) ==
    {dep \in deps : dep_ttls[dep] < expires}

_remember_dependencies_for(r, key, deps, expires) ==
    IF deps = {} THEN r
    ELSE LET r1 == SaddAll(r, deps, key)
             dep_ttls == [dep \in deps |-> Ttl(r1, dep)]
         IN  ExpireAll(r1, expire_deps(deps, dep_ttls, expires), expires)

put(r, key, pdata, dependencies, expires) ==
    Setex(_remember_dependencies_for(r, key, dependencies, expires),
          key, expires, serialize(pdata))

\* a faulty variant: only one of the index keys is read
data_keys_of_one(r, deps) ==
    IF deps = {} THEN {} ELSE Smembers(r, CHOOSE dep \in deps : TRUE)

\* the data keys that the index keys of `deps` hold
data_keys_of(r, deps) == UNION {Smembers(r, dep) : dep \in deps}

\* a faulty variant: the index keys are left behind
unlink_data_only(r, data_keys, deps) == Unlink(r, data_keys, {})

\* the commit of invalidate: t.unlink(*data_keys, *deps)
unlink_all(r, data_keys, deps) == Unlink(r, data_keys, deps)

\* the set that invalidate makes of its argument, a list of dependencies
deps_of(dependencies) == {dependencies[i] : i \in DOMAIN dependencies}

\* a faulty variant: only the members that are still stored count, and with
\* none of them nothing is unlinked
invalidate_live_only(r, dependencies) ==
    IF dependencies = {} THEN r
    ELSE LET data_keys == {k \in UNION {Smembers(r, dep) : dep \in dependencies} :
                             r.data[k].live}
         IN  IF data_keys # {} THEN Unlink(r, data_keys, dependencies)
             ELSE r

invalidate(r, dependencies) ==
    IF dependencies = {} THEN r
    ELSE LET data_keys == data_keys_of(r, dependencies)
         IN  IF data_keys # {} THEN unlink_all(r, data_keys, dependencies)
             ELSE r

\* the reply of the commit of invalidate: how many of the keys that UNLINK
\* names were there; 0 when there was no commit
unlinked(r, dependencies) ==
    LET data_keys == data_keys_of(r, dependencies)
    IN  IF data_keys = {} THEN 0
        ELSE Cardinality({k \in data_keys : r.data[k].live})
             + Cardinality({dep \in dependencies : r.rttl[dep] # -2})

\* a faulty variant: no early return for an empty collection of dependencies
invalidate_calls_unguarded(r, dependencies) ==
    1 + Cardinality(dependencies)
      + (IF data_keys_of(r, dependencies) # {} THEN 2 ELSE 0)

\* the calls invalidate makes to the store when nothing conflicts: WATCH,
\* one SMEMBERS per index key and, when data keys were found, WATCH and EXEC
invalidate_calls(r, dependencies) ==
    IF dependencies = {} THEN 0
    ELSE 1 + Cardinality(dependencies)
           + (IF data_keys_of(r, dependencies) # {} THEN 2 ELSE 0)

(***************************************************************************)
(* Scopes (dep/scopes.py): the dependencies of filtered listings.          *)
(*                                                                         *)
(* A filter (`conditions`) and what an extractor returns (`params`) are    *)
(* dicts: functions from names to values.  A name is one symbol of the     *)
(* text of a key.                                                          *)
(***************************************************************************)
\* the names that are used, in the order in which Python sorts them
AllNames == <<"author", "category", "title">>
Rank(name) == CHOOSE i \in 1..Len(AllNames) : AllNames[i] = name

\* sorted(names)
RECURSIVE Insert(_, _)
Insert(name, names) ==
    IF names = <<>> THEN <<name>>
    ELSE IF Rank(name) <= Rank(names[1]) THEN <<name>> \o names
    ELSE <<names[1]>> \o Insert(name, Tail(names))

\* a faulty variant: the names are left in the order they come in
sorted_as_given(names) == names

RECURSIVE sorted(_)
sorted(names) ==
    IF names = <<>> THEN <<>> ELSE Insert(names[1], sorted(Tail(names)))

\* the keys of a dict, in some order
RECURSIVE KeysOf(_)
KeysOf(names) ==
    IF names = {} THEN <<>>
    ELSE LET n == CHOOSE x \in names : TRUE
         IN  <<n>> \o KeysOf(names \ {n})

frozenset(names) == {names[i] : i \in DOMAIN names}

\* the empty dict
EmptyDict == [n \in {} |-> PyNone]

\* f'{value}'
format_value(value) ==
    IF value.t = "str" THEN value.s ELSE <<DigitChar(value.items[1])>>

\* '&'.join(f'{key}={value}' for key, value in sorted(conditions.items()))
RECURSIVE JoinConditions(_, _)
JoinConditions(names, conditions) ==
    IF names = <<>> THEN <<>>
    ELSE <<names[1], "=">> \o format_value(conditions[names[1]])
         \o (IF Len(names) = 1 THEN <<>>
             ELSE <<"&">> \o JoinConditions(Tail(names), conditions))

PREFIX == "condition"

\* ConditionalDependency(object_type, conditions) for a dict whose keys were
\* inserted in the order `names`
ConditionalDependencyOf(object_type, names, conditions) ==
    [cls |-> "ConditionalDependency",
     object_type |-> object_type,
     condition |-> <<"&">>
                   \o JoinConditions(sorted(names), conditions)
                   \o <<"&">>]

ConditionalDependency(object_type, conditions) ==
    ConditionalDependencyOf(object_type, KeysOf(DOMAIN conditions),
                            conditions)

\* the kill switch: a Tag named after the object type, with the prefix of
\* ConditionalDependency
InvalidateAll(object_type) ==
    [cls |-> "InvalidateAll", object_type |-> object_type, condition |-> <<>>]

\* dependency.key()
dep_key(dependency) ==
    IF dependency.cls = "ConditionalDependency"
    THEN <<PREFIX, ":", dependency.object_type, ":">> \o dependency.condition
    ELSE <<PREFIX, ":", dependency.object_type>>

ExtractorInfo(param_names, watch_modified, func) ==
    [param_names |-> param_names, watch_modified |-> watch_modified,
     func |-> func]

\* Scopes(object_type, production_mode=...)
NewScopes(object_type, production_mode) ==
    [object_type |-> object_type,
     extractor_fns |-> <<>>,
     known_extractor_signatures |-> {},
     invalidate_all |-> InvalidateAll(object_type),
     production_mode |-> production_mode]

\* a faulty variant: the signature is remembered as it was given, not sorted
signature_unsorted(names) == names

\* tuple(sorted(names))
signature(names) == sorted(names)

\* @scopes.describes(*param_names, watch_modified=...)(func); no
\* watch_modified and an empty one are <<>>
describes(sc, param_names, watch_modified, func) ==
    [sc EXCEPT
        !.extractor_fns = Append(@,
            ExtractorInfo(frozenset(param_names),
                          IF watch_modified # <<>>
                          THEN frozenset(watch_modified)
                          ELSE frozenset(param_names),
                          func)),
        !.known_extractor_signatures = @ \cup {signature(param_names)}]

\* what a call of Scopes gives: an exception or a list of dependencies, and
\* whether it warned
\* a faulty variant: the error is swallowed and nothing is returned
Raises_nothing == [raised |-> FALSE, warned |-> FALSE, ret |-> <<>>]

Raises == [raised |-> TRUE, warned |-> FALSE, ret |-> <<>>]
Gives(ret, warned) == [raised |-> FALSE, warned |-> warned, ret |-> ret]

\* a faulty variant: the lenient mode returns nothing to depend on
lenient_condition_none(sc) == Gives(<<>>, TRUE)

\* condition() in production mode, for a filter that no extractor describes
lenient_condition(sc) == Gives(<<sc.invalidate_all>>, TRUE)

\* a faulty variant: a filter that is described depends on its condition only
condition_without_kill_switch(sc, conditions) ==
    IF signature(KeysOf(DOMAIN conditions)) \in sc.known_extractor_signatures
    THEN Gives(<<ConditionalDependency(sc.object_type, conditions)>>, FALSE)
    ELSE IF sc.production_mode THEN lenient_condition(sc)
    ELSE Raises

\* scopes.condition(**conditions)
condition(sc, conditions) ==
    LET filter_params_signature == signature(KeysOf(DOMAIN conditions))
    IN  IF filter_params_signature \in sc.known_extractor_signatures
        THEN Gives(<<ConditionalDependency(sc.object_type, conditions),
                     sc.invalidate_all>>, FALSE)
        ELSE IF sc.production_mode THEN lenient_condition(sc)
        ELSE Raises

\* the extractor functions that get registered, and what they do with an item
Extractors == {"by_category", "by_both", "ignores", "fails"}

Raised == [kind |-> "raise", params |-> EmptyDict]
ReturnedNone == [kind |-> "none", params |-> EmptyDict]
ReturnedDict(params) == [kind |-> "dict", params |-> params]

\* extractor_info.func(item)
call_extractor(func, item) ==
    CASE func = "by_category" ->
            ReturnedDict([n \in {"category"} |-> item[n]])
      [] func = "by_both" ->
            ReturnedDict([n \in {"author", "category"} |-> item[n]])
      [] func = "ignores" -> ReturnedNone
      [] func = "fails" -> Raised

\* the `modified` argument: not given (None), or a collection of field names
NotGiven == [given |-> FALSE, fields |-> {}]
Given(fields) == [given |-> TRUE, fields |-> fields]

\* a faulty variant: an extractor is skipped whenever `modified` was given and
\* names none of its fields
skipped_when_given(extractor_info, modified) ==
    modified.given /\ extractor_info.watch_modified \cap modified.fields = {}

\* `if modified and not (extractor_info.watch_modified & modified)`: None and
\* an empty collection are both false
skipped(extractor_info, modified) ==
    /\ modified.given /\ modified.fields # {}
    /\ extractor_info.watch_modified \cap modified.fields = {}

\* a faulty variant: what was collected so far is returned
invalidate_all_instead_keeps(sc, ret) == Gives(ret, FALSE)

\* `return [self._invalidate_all]`: in production mode a failing extractor
\* ends the loop, and the kill switch is all that is returned
invalidate_all_instead(sc, ret) == Gives(<<sc.invalidate_all>>, FALSE)

\* the loop of object_invalidates over the extractors that are left
RECURSIVE run_extractors(_, _, _, _, _)
run_extractors(sc, extractor_fns, item, modified, ret) ==
    IF extractor_fns = <<>> THEN Gives(ret, FALSE)
    ELSE LET extractor_info == extractor_fns[1]
             rest == Tail(extractor_fns)
             got == call_extractor(extractor_info.func, item)
         IN  IF skipped(extractor_info, modified)
             THEN run_extractors(sc, rest, item, modified, ret)
             ELSE IF got.kind = "raise"
             THEN IF sc.production_mode THEN invalidate_all_instead(sc, ret)
                  ELSE Raises
             ELSE IF got.kind = "none"
             THEN run_extractors(sc, rest, item, modified, ret)
             ELSE IF DOMAIN got.params = extractor_info.param_names
             THEN run_extractors(sc, rest, item, modified,
                      Append(ret, ConditionalDependency(sc.object_type,
                                                        got.params)))
             ELSE IF sc.production_mode THEN invalidate_all_instead(sc, ret)
             ELSE Raises

\* scopes.object_invalidates(item, modified)
object_invalidates(sc, item, modified) ==
    run_extractors(sc, sc.extractor_fns, item, modified, <<>>)

\* the canonical strings of a list of dependencies
dep_keys(dependencies) ==
    {dep_key(dependencies[i]) : i \in DOMAIN dependencies}

(***************************************************************************)
(* State.                                                                  *)
(*   redis   : the store                                                   *)
(*   putDeps : for a live data key, the dependencies of the put that       *)
(*             stored it                                                   *)
(*   putData : for a live data key, the payload that put was given         *)
(*   entry   : what the contract of the backend says is cached: set by a   *)
(*             put, ended by delete, by the invalidation of one of its     *)
(*             dependencies and by its ttl                                 *)
(*   last    : the last call, its arguments and its outcome                *)
(*   proc    : the clients of SpecC and SpecRetry: where each is in its    *)
(*             call, the call's local variables, and what its connection   *)
(*             watches                                                     *)
(*   scopes  : the Scopes object of SpecScopes and SpecListing (sc), and   *)
(*             the last call of one of its methods (out)                   *)
(***************************************************************************)
VARIABLES redis, putDeps, putData, entry, last, proc, scopes

vars == <<redis, putDeps, putData, entry, last, proc, scopes>>

\* the clients that run concurrently
Procs == {"p1", "p2"}

\* a client between two calls
Idle ==
    [pc |-> "idle", key |-> "k1", deps |-> {}, expires |-> 0, attempt |-> 0,
     todo |-> {}, dep_ttls |-> [d \in Deps |-> 0], data_keys |-> {},
     watching |-> {}, dirty |-> FALSE, res |-> "none",
     calls |-> 0, log_enabled |-> FALSE, log |-> <<>>]

\* no method of the Scopes object has been called
NoOut ==
    [op |-> "none", conditions |-> EmptyDict, item |-> EmptyDict,
     modified |-> NotGiven, res |-> Gives(<<>>, FALSE)]

NoEntry == [live |-> FALSE, data |-> PyNone, deps |-> {}, ttl |-> 0]

NoCall ==
    [op |-> "none", key |-> "k1", deps |-> {}, raised |-> FALSE,
     value |-> PyNone, ret |-> FALSE, calls |-> 0, data_keys |-> {},
     unlinked |-> 0]

Call(op, key, deps) == [NoCall EXCEPT !.op = op, !.key = key, !.deps = deps]

\* the history of a data key ends when the key is gone
Forget(r, f, none) == [k \in Keys |-> IF r.data[k].live THEN f[k] ELSE none]

Init ==
    /\ redis = EmptyRedis
    /\ putDeps = [k \in Keys |-> {}]
    /\ putData = [k \in Keys |-> PyNone]
    /\ entry = [k \in Keys |-> NoEntry]
    /\ last = NoCall
    /\ proc = [p \in Procs |-> Idle]
    /\ scopes = [sc |-> NewScopes("article", FALSE), out |-> NoOut]

DoGet(key) ==
    /\ last' = [Call("get", key, {}) EXCEPT
                    !.raised = get(redis, key).raised,
                    !.value = get(redis, key).value,
                    !.calls = 1]
    /\ UNCHANGED <<redis, putDeps, putData, entry, proc, scopes>>

DoHas(key) ==
    /\ last' = [Call("has", key, {}) EXCEPT
                    !.ret = has(redis, key), !.calls = 1]
    /\ UNCHANGED <<redis, putDeps, putData, entry, proc, scopes>>

DoDelete(key) ==
    /\ redis' = delete(redis, key)
    /\ putDeps' = Forget(redis', putDeps, {})
    /\ putData' = Forget(redis', putData, PyNone)
    /\ entry' = [entry EXCEPT ![key] = NoEntry]
    /\ last' = Call("delete", key, {})
    /\ UNCHANGED <<proc, scopes>>

DoPut(key, pdata, dependencies, expires) ==
    /\ redis' = put(redis, key, pdata, dependencies, expires)
    /\ putDeps' = [putDeps EXCEPT ![key] = dependencies]
    /\ putData' = [putData EXCEPT ![key] = pdata]
    /\ entry' = [entry EXCEPT ![key] =
                    [live |-> TRUE, data |-> pdata, deps |-> dependencies,
                     ttl |-> expires]]
    /\ last' = Call("put", key, dependencies)
    /\ UNCHANGED <<proc, scopes>>

DoInvalidate(dependencies) ==
    /\ redis' = invalidate(redis, dependencies)
    /\ putDeps' = Forget(redis', putDeps, {})
    /\ putData' = Forget(redis', putData, PyNone)
    /\ entry' = [k \in Keys |->
                    IF entry[k].deps \cap dependencies # {} THEN NoEntry
                    ELSE entry[k]]
    /\ last' = [Call("invalidate", "k1", dependencies) EXCEPT
                    !.calls = invalidate_calls(redis, dependencies),
                    !.data_keys = IF dependencies = {} THEN {}
                                  ELSE data_keys_of(redis, dependencies),
                    !.unlinked = unlinked(redis, dependencies)]
    /\ UNCHANGED <<proc, scopes>>

Tick ==
    /\ \/ \E k \in Keys : redis.data[k].live
       \/ \E d \in DOMAIN redis.rttl : redis.rttl[d] > 0
    /\ redis' = Elapse(redis)
    /\ putDeps' = Forget(redis', putDeps, {})
    /\ putData' = Forget(redis', putData, PyNone)
    /\ entry' = [k \in Keys |->
                    IF entry[k].live /\ entry[k].ttl > 1
                    THEN [entry[k] EXCEPT !.ttl = @ - 1] ELSE NoEntry]
    /\ last' = Call("tick", "k1", {})
    /\ UNCHANGED <<proc, scopes>>

\* the calls that read the store, with arguments from the given sets
Reads(keys) ==
    \/ \E key \in keys : DoGet(key)
    \/ \E key \in keys : DoHas(key)

\* the calls that write the store, and the passing of time
Writes(keys, payloads, deps, ttls) ==
    \/ \E key \in keys : DoDelete(key)
    \/ \E key \in keys, pdata \in payloads, dependencies \in SUBSET deps,
          expires \in ttls : DoPut(key, pdata, dependencies, expires)
    \/ \E dependencies \in SUBSET deps : DoInvalidate(dependencies)
    \/ Tick

\* Spec: the writes of one client, over every key and dependency, with one
\* payload (get and has leave the store as it is: GetHasContract)
Next == Writes(Keys, {Payload0}, Deps, TTLs)

Spec == Init /\ [][Next]_vars

\* SpecData: reads and writes of one client, over every payload, with one
\* key and one dependency
NextData == Reads({"k1"}) \/ Writes({"k1"}, Payloads, {"d1"}, TTLs)

SpecData == Init /\ [][NextData]_vars

(***************************************************************************)
(* Concurrent clients.  Every call to the store is one step; the commands  *)
(* of a pipeline without a transaction are steps of their own, in any      *)
(* order; MULTI ... EXEC is one step.                                      *)
(*                                                                         *)
(* WATCH: a connection that watches a key is marked dirty when the key is  *)
(* modified, and the EXEC of a dirty connection is refused (WatchError).   *)
(***************************************************************************)
\* the number of attempts of the two retry loops: range(0, 10)
MaxAttempts == 10

\* the calls the clients of SpecC make in all
MaxCalls == 3

\* a faulty variant: a new member of a set does not count as a change
SaddTouches_nothing(r, dep, key) == {}

\* the keys a command modifies
SaddTouches(r, dep, key) ==
    IF key \in r.rdep[dep] THEN {} ELSE {_key("rdep", dep)}
SetexTouches(key) == {_key("data", key)}
ExpireTouches(r, ds) == {_key("rdep", d) : d \in {x \in ds : r.rttl[x] # -2}}
UnlinkTouches(r, ks, ds) ==
    {_key("data", k) : k \in {x \in ks : r.data[x].live}}
    \cup {_key("rdep", d) : d \in {x \in ds : r.rttl[x] # -2}}
\* the keys whose time is up in the next second
ExpiringKeys(r) ==
    {_key("data", k) : k \in {x \in Keys : r.data[x].live /\ r.data[x].ttl = 1}}
    \cup {_key("rdep", d) : d \in {x \in Deps : r.rttl[x] = 1}}

\* a faulty variant: a change of a watched key goes unnoticed
Touched_unwatched(pr, touched) == pr

\* the connections that watch one of `touched` become dirty
Touched(pr, touched) ==
    [q \in Procs |->
        IF pr[q].watching \cap touched # {} THEN [pr[q] EXCEPT !.dirty = TRUE]
        ELSE pr[q]]

\* a faulty variant: a conflict is retried without a bound
after_conflict_unbounded(attempt) == "retry"

\* `except WatchError: continue` in `for _ in range(0, 10)`: after a refused
\* EXEC the loop goes on while attempts are left, and ends silently otherwise
after_conflict(attempt) ==
    IF attempt + 1 < MaxAttempts THEN "retry" ELSE "give_up"

\* the client may start a call (limit 0: any number of calls)
CanCall(p, limit) ==
    /\ proc[p].pc = "idle"
    /\ limit = 0 \/ proc["p1"].calls + proc["p2"].calls < limit

Called(p, limit) == IF limit = 0 THEN 0 ELSE proc[p].calls + 1

\* what is left of a call's variables after it returned
Return(pr, res) ==
    [Idle EXCEPT !.res = res, !.attempt = pr.attempt, !.calls = pr.calls,
                 !.data_keys = pr.data_keys,
                 !.log_enabled = pr.log_enabled, !.log = pr.log]

\* self.log_enabled and logger.info('Invalidated data keys: ' + ...)
logger_info(pr) ==
    [pr EXCEPT !.log = IF pr.log_enabled
                       THEN Append(@, [message |-> "Invalidated data keys",
                                       data_keys |-> pr.data_keys])
                       ELSE @]

\* cache.set_logging_enabled(enabled), between two calls
SetLoggingEnabled(p, enabled) ==
    /\ proc[p].pc = "idle"
    /\ proc[p].log_enabled # enabled
    /\ proc' = [proc EXCEPT ![p].log_enabled = enabled]
    /\ UNCHANGED <<redis, putDeps, putData, entry, last, scopes>>

FrameC == UNCHANGED <<entry, last, scopes>>

\* put(key, data, dependencies, expires) is called
StartPut(p, key, dependencies, expires, limit) ==
    /\ CanCall(p, limit)
    /\ proc' = [proc EXCEPT ![p] =
                  [Idle EXCEPT !.pc = IF dependencies = {} THEN "put_setex"
                                      ELSE "put_sadd",
                               !.key = key, !.deps = dependencies,
                               !.expires = expires, !.todo = dependencies,
                               !.calls = Called(p, limit),
                               !.log_enabled = proc[p].log_enabled]]
    /\ UNCHANGED <<redis, putDeps, putData>>
    /\ FrameC

\* p.sadd(dep, data_key), one command of the pipeline
PutSadd(p) ==
    /\ proc[p].pc = "put_sadd"
    /\ \E dep \in proc[p].todo :
          /\ redis' = Sadd(redis, dep, proc[p].key)
          /\ proc' = [Touched(proc, SaddTouches(redis, dep, proc[p].key))
                        EXCEPT ![p].todo = @ \ {dep},
                               ![p].pc = IF proc[p].todo = {dep}
                                         THEN "put_watch" ELSE @]
    /\ UNCHANGED <<putDeps, putData>>
    /\ FrameC

\* t.watch(*deps)
PutWatch(p) ==
    /\ proc[p].pc = "put_watch"
    /\ proc' = [proc EXCEPT ![p].watching = RdepKeys(proc[p].deps),
                            ![p].dirty = FALSE,
                            ![p].todo = proc[p].deps,
                            ![p].pc = "put_ttl"]
    /\ UNCHANGED <<redis, putDeps, putData>>
    /\ FrameC

\* p.ttl(dep), one command of the pipeline
PutTtl(p) ==
    /\ proc[p].pc = "put_ttl"
    /\ \E dep \in proc[p].todo :
          proc' = [proc EXCEPT ![p].dep_ttls[dep] = Ttl(redis, dep),
                               ![p].todo = @ \ {dep},
                               ![p].pc = IF proc[p].todo = {dep}
                                         THEN "put_exec" ELSE @]
    /\ UNCHANGED <<redis, putDeps, putData>>
    /\ FrameC

\* t.multi(); t.expire(dep, expires) for every dep to extend; t.execute()
PutExec(p) ==
    /\ proc[p].pc = "put_exec"
    /\ IF proc[p].dirty
       THEN /\ proc' = [proc EXCEPT
                           ![p].attempt = @ + 1,
                           ![p].watching = {},
                           ![p].dirty = FALSE,
                           ![p].pc = IF after_conflict(proc[p].attempt) = "retry"
                                     THEN "put_watch" ELSE "put_setex"]
            /\ UNCHANGED redis
       ELSE LET ds == expire_deps(proc[p].deps, proc[p].dep_ttls,
                                  proc[p].expires)
            IN  /\ redis' = ExpireAll(redis, ds, proc[p].expires)
                /\ proc' = [Touched(proc, ExpireTouches(redis, ds)) EXCEPT
                               ![p].watching = {},
                               ![p].dirty = FALSE,
                               ![p].pc = "put_setex"]
    /\ UNCHANGED <<putDeps, putData>>
    /\ FrameC

\* self.redis.setex(data_key, expires, serialize(data)), and put returns
PutSetex(p) ==
    /\ proc[p].pc = "put_setex"
    /\ redis' = Setex(redis, proc[p].key, proc[p].expires, serialize(Payload0))
    /\ putDeps' = [putDeps EXCEPT ![proc[p].key] = proc[p].deps]
    /\ putData' = [putData EXCEPT ![proc[p].key] = Payload0]
    /\ proc' = [Touched(proc, SetexTouches(proc[p].key)) EXCEPT
                   ![p] = Return(proc[p], "ok")]
    /\ FrameC

\* invalidate(dependencies) is called; with no dependencies it returns
StartInvalidate(p, dependencies, limit) ==
    /\ CanCall(p, limit)
    /\ proc' = [proc EXCEPT ![p] =
                  [Idle EXCEPT !.pc = IF dependencies = {} THEN "idle"
                                      ELSE "inv_watch",
                               !.res = IF dependencies = {} THEN "ok"
                                       ELSE "none",
                               !.deps = dependencies,
                               !.calls = Called(p, limit),
                               !.log_enabled = proc[p].log_enabled]]
    /\ UNCHANGED <<redis, putDeps, putData>>
    /\ FrameC

\* t.watch(*deps)
InvWatch(p) ==
    /\ proc[p].pc = "inv_watch"
    /\ proc' = [proc EXCEPT ![p].watching = RdepKeys(proc[p].deps),
                            ![p].dirty = FALSE,
                            ![p].todo = proc[p].deps,
                            ![p].data_keys = {},
                            ![p].pc = "inv_read"]
    /\ UNCHANGED <<redis, putDeps, putData>>
    /\ FrameC

\* p.smembers(rdep_key), one command of the pipeline; after the last one,
\* with no data keys, invalidate returns
InvRead(p) ==
    /\ proc[p].pc = "inv_read"
    /\ \E dep \in proc[p].todo :
          LET found == proc[p].data_keys \cup Smembers(redis, dep)
          IN  proc' = [proc EXCEPT ![p] =
                         IF proc[p].todo # {dep}
                         THEN [@ EXCEPT !.todo = @ \ {dep},
                                        !.data_keys = found]
                         ELSE IF found # {}
                         THEN [@ EXCEPT !.todo = {}, !.data_keys = found,
                                        !.pc = "inv_watch2"]
                         ELSE Return(logger_info([@ EXCEPT !.data_keys = {}]),
                                     "ok")]
    /\ UNCHANGED <<redis, putDeps, putData>>
    /\ FrameC

\* t.watch(*data_keys)
InvWatch2(p) ==
    /\ proc[p].pc = "inv_watch2"
    /\ proc' = [proc EXCEPT
                   ![p].watching = @ \cup DataKeys(proc[p].data_keys),
                   ![p].pc = "inv_exec"]
    /\ UNCHANGED <<redis, putDeps, putData>>
    /\ FrameC

\* t.multi(); t.unlink(*data_keys, *deps); t.execute()
InvExec(p) ==
    /\ proc[p].pc = "inv_exec"
    /\ IF proc[p].dirty
       THEN /\ proc' = [proc EXCEPT ![p] =
                          IF after_conflict(proc[p].attempt) = "retry"
                          THEN [@ EXCEPT !.attempt = @ + 1, !.watching = {},
                                         !.dirty = FALSE, !.pc = "inv_watch"]
                          ELSE Return([@ EXCEPT !.attempt = @ + 1], "gave_up")]
            /\ UNCHANGED redis
       ELSE /\ redis' = unlink_all(redis, proc[p].data_keys, proc[p].deps)
            /\ proc' = [Touched(proc, UnlinkTouches(redis, proc[p].data_keys,
                                                    proc[p].deps))
                          EXCEPT ![p] = Return(logger_info(proc[p]), "ok")]
    /\ putDeps' = Forget(redis', putDeps, {})
    /\ putData' = Forget(redis', putData, PyNone)
    /\ FrameC

\* One second passes.  Whether the expiry of a watched key makes the
\* watching connection dirty depends on the store's version: both happen.
TickC ==
    /\ \/ \E k \in Keys : redis.data[k].live
       \/ \E d \in Deps : redis.rttl[d] > 0
    /\ redis' = Elapse(redis)
    /\ \E touch \in BOOLEAN :
          proc' = IF touch THEN Touched(proc, ExpiringKeys(redis)) ELSE proc
    /\ putDeps' = Forget(redis', putDeps, {})
    /\ putData' = Forget(redis', putData, PyNone)
    /\ FrameC

\* a step of a call that is under way
Step(p) ==
    \/ PutSadd(p)
    \/ PutWatch(p)
    \/ PutTtl(p)
    \/ PutExec(p)
    \/ PutSetex(p)
    \/ InvWatch(p)
    \/ InvRead(p)
    \/ InvWatch2(p)
    \/ InvExec(p)

\* SpecC: a client that puts and a client that invalidates make up to
\* MaxCalls calls in all, while time passes
NextC ==
    \/ \E key \in Keys, dependencies \in SUBSET {"d1"},
          expires \in TTLs : StartPut("p1", key, dependencies, expires, MaxCalls)
    \/ \E dependencies \in SUBSET {"d1"} :
          StartInvalidate("p2", dependencies, MaxCalls)
    \/ \E p \in Procs : Step(p)
    \/ TickC

SpecC == Init /\ [][NextC]_vars

\* SpecRetry: one client puts the same entry again and again while the other
\* invalidates its dependency again and again
NextRetry ==
    \/ StartPut("p1", "k1", {"d1"}, 1, 0)
    \/ StartInvalidate("p2", {"d1"}, 0)
    \/ \E p \in Procs : Step(p)

\* the thread that runs invalidate keeps running
SpecRetry == Init /\ [][NextRetry]_vars /\ WF_vars(Step("p2"))

\* SpecLog: the calls of SpecRetry, with logging switched on and off
NextLog ==
    \/ NextRetry
    \/ \E enabled \in BOOLEAN : SetLoggingEnabled("p2", enabled)

SpecLog == Init /\ [][NextLog]_vars

(***************************************************************************)
(* A Scopes object, alone (SpecScopes) and with a cache whose entries are  *)
(* put with the dependencies of condition() (SpecListing).                 *)
(***************************************************************************)
\* the extractors that are registered
MaxExtractors == 2

\* the values of the fields of an item and of the filters
Values == {PyStr(<<"1">>), PyStr(<<"2">>)}
\* the items that are created, modified or deleted
Items == [author : {PyStr(<<"1">>)}, category : Values]
\* the filters of the listings: every dict over author and category
Filters == UNION {[names -> Values] : names \in SUBSET {"author", "category"}}
\* the `modified` arguments
Modifieds == {NotGiven, Given({}), Given({"category"}), Given({"title"})}

\* the filters of the listings that are cached: by a category, by an author
ListingFilters ==
    [{"category"} -> Values] \cup [{"author"} -> {PyStr(<<"1">>)}]

\* the index keys of the dependencies of the cached listings
ScopeDeps ==
    {dep_key(ConditionalDependency("article", f)) : f \in ListingFilters}
    \cup {dep_key(InvalidateAll("article"))}

\* the store of SpecListing: empty, its index keys named by ScopeDeps
EmptyListingRedis ==
    [data |-> [k \in Keys |-> NoData],
     rdep |-> [d \in ScopeDeps |-> {}],
     rttl |-> [d \in ScopeDeps |-> -2]]

InitScopes ==
    /\ redis = EmptyListingRedis
    /\ putDeps = [k \in Keys |-> {}]
    /\ putData = [k \in Keys |-> PyNone]
    /\ entry = [k \in Keys |-> NoEntry]
    /\ last = NoCall
    /\ proc = [p \in Procs |-> Idle]
    /\ \E production_mode \in BOOLEAN :
          scopes = [sc |-> NewScopes("article", production_mode),
                    out |-> NoOut]

Out(op, conditions, item, modified, res) ==
    [op |-> op, conditions |-> conditions, item |-> item,
     modified |-> modified, res |-> res]

\* the cache is left as it is
FrameS == UNCHANGED <<redis, putDeps, putData, entry, last, proc>>

\* @scopes.describes(*param_names, watch_modified=watch_modified)
DoDescribes(param_names, watch_modified, func) ==
    /\ Len(scopes.sc.extractor_fns) < MaxExtractors
    /\ scopes' = [sc |-> describes(scopes.sc, param_names, watch_modified,
                                   func),
                  out |-> Out("describes", EmptyDict, EmptyDict, NotGiven,
                              Gives(<<>>, FALSE))]
    /\ FrameS

\* scopes.condition(**conditions)
DoCondition(conditions) ==
    /\ scopes' = [scopes EXCEPT !.out =
                    Out("condition", conditions, EmptyDict, NotGiven,
                        condition(scopes.sc, conditions))]
    /\ FrameS

\* scopes.object_invalidates(item, modified)
DoObjectInvalidates(item, modified) ==
    /\ scopes' = [scopes EXCEPT !.out =
                    Out("object_invalidates", EmptyDict, item, modified,
                        object_invalidates(scopes.sc, item, modified))]
    /\ FrameS

\* cache.put(key, data, *scopes.condition(**conditions), expires=expires)
DoPutCondition(key, conditions, expires) ==
    LET res == condition(scopes.sc, conditions)
        dependencies == dep_keys(res.ret)
    IN  /\ scopes' = [scopes EXCEPT !.out =
                        Out("condition", conditions, EmptyDict, NotGiven,
                            res)]
        /\ IF res.raised
           THEN /\ last' = [Call("put", key, {}) EXCEPT !.raised = TRUE]
                /\ UNCHANGED <<redis, putDeps, putData, entry, proc>>
           ELSE /\ redis' = put(redis, key, Payload0, dependencies, expires)
                /\ putDeps' = [putDeps EXCEPT ![key] = dependencies]
                /\ putData' = [putData EXCEPT ![key] = Payload0]
                /\ entry' = [entry EXCEPT ![key] =
                                [live |-> TRUE, data |-> Payload0,
                                 deps |-> dependencies, ttl |-> expires]]
                /\ last' = Call("put", key, dependencies)
                /\ UNCHANGED proc

\* cache.invalidate(*dependencies), for dependencies that Scopes made
InvalidateListings(op, item, modified, res) ==
    LET dependencies == dep_keys(res.ret)
    IN  /\ scopes' = [scopes EXCEPT !.out =
                        Out(op, EmptyDict, item, modified, res)]
        /\ IF res.raised
           THEN /\ last' = [Call("invalidate", "k1", {}) EXCEPT
                               !.raised = TRUE]
                /\ UNCHANGED <<redis, putDeps, putData, entry, proc>>
           ELSE /\ redis' = invalidate(redis, dependencies)
                /\ putDeps' = Forget(redis', putDeps, {})
                /\ putData' = Forget(redis', putData, PyNone)
                /\ entry' = [k \in Keys |->
                                IF entry[k].deps \cap dependencies # {}
                                THEN NoEntry ELSE entry[k]]
                /\ last' = [Call("invalidate", "k1", dependencies) EXCEPT
                               !.data_keys = data_keys_of(redis, dependencies),
                               !.unlinked = unlinked(redis, dependencies)]
                /\ UNCHANGED proc

\* scopes.invalidate_for(item, cache, modified)
DoInvalidateFor(item, modified) ==
    InvalidateListings("invalidate_for", item, modified,
                       object_invalidates(scopes.sc, item, modified))

\* cache.invalidate(InvalidateAll(object_type)): the kill switch
DoInvalidateAll ==
    InvalidateListings("invalidate_all", EmptyDict, NotGiven,
                       Gives(<<InvalidateAll(scopes.sc.object_type)>>, FALSE))

\* SpecScopes: registrations, and the dependencies that condition() and
\* object_invalidates() give
NextScopes ==
    \/ \E param_names \in {<<"category">>, <<"category", "author">>},
          watch_modified \in {<<>>, <<"title">>}, func \in Extractors :
          DoDescribes(param_names, watch_modified, func)
    \/ \E conditions \in Filters : DoCondition(conditions)
    \/ \E item \in Items, modified \in Modifieds :
          DoObjectInvalidates(item, modified)

SpecScopes == InitScopes /\ [][NextScopes]_vars

\* SpecListing: listings by category and by author are cached, with
\* extractors for the category that work or fail, while items change; no
\* entry expires
NextListing ==
    \/ \E func \in {"by_category", "fails"} :
          DoDescribes(<<"category">>, <<>>, func)
    \/ \E key \in Keys, conditions \in ListingFilters :
          DoPutCondition(key, conditions, MaxTTL)
    \/ \E item \in Items : DoInvalidateFor(item, NotGiven)
    \/ DoInvalidateAll

SpecListing == InitScopes /\ [][NextListing]_vars

(***************************************************************************)
(* Properties of the calls of one client (Spec, SpecData).                 *)
(***************************************************************************)
Max(a, b) == IF a >= b THEN a ELSE b

InvalidationPrecision ==
    [][\A K \in Keys :
         (/\ last'.op = "invalidate"
          /\ redis.data[K].live
          /\ putDeps[K] \cap last'.deps = {})
         => redis'.data[K].live]_vars

\* C4. Round trip: what the contract holds cached (put, and since then not
\* expired, not deleted, none of its dependencies invalidated) is what get
\* returns, and has is true.
RoundTrip ==
    \A K \in Keys :
        (entry[K].live /\ IsJsonValue(entry[K].data))
        => (has(redis, K) /\ get(redis, K) = Returned(entry[K].data))

\* C6. TTL monotonicity: a put never shortens the expiry of an index key; the
\* index keys of its dependencies end with at least `expires` left, and keep
\* their TTL when it is not shorter than `expires`; no other index key
\* changes.
TTLMonotonicity ==
    [][last'.op = "put" =>
         LET expires == redis'.data[last'.key].ttl
         IN  \A d \in Deps :
                 /\ Ttl(redis', d) >= Ttl(redis, d)
                 /\ d \in last'.deps => Ttl(redis', d) >= expires
                 /\ (d \in last'.deps /\ Ttl(redis, d) >= expires)
                    => Ttl(redis', d) = Ttl(redis, d)
                 /\ d \notin last'.deps => Ttl(redis', d) = Ttl(redis, d)]_vars

\* a put with a shorter ttl joined an index key and left its expiry alone
TTLMonotonicityWitness ==
    /\ last.op = "put"
    /\ \E d \in last.deps :
           /\ Cardinality(Smembers(redis, d)) = 2
           /\ Ttl(redis, d) > redis.data[last.key].ttl

\* C9. invalidate with no dependencies changes no data key and no index key,
\* and makes no call to the store.
EmptyInvalidateNoOp ==
    [][(last'.op = "invalidate" /\ last'.deps = {})
         => (redis' = redis /\ last'.calls = 0)]_vars

\* an empty invalidate ran while entries and index keys existed
EmptyInvalidateNoOpWitness ==
    /\ last.op = "invalidate"
    /\ last.deps = {}
    /\ \E K \in Keys : redis.data[K].live
    /\ \E d \in Deps : Smembers(redis, d) # {}

\* C10. get raises NotInCache exactly when the data key is absent, and
\* otherwise returns the payload that was put; has answers whether the data
\* key exists and never raises; neither changes the store.
GetHasContract ==
    [][/\ last'.op = "get" =>
            /\ redis' = redis
            /\ last'.raised <=> ~redis.data[last'.key].live
            /\ (redis.data[last'.key].live
                /\ IsJsonValue(putData[last'.key]))
               => last'.value = putData[last'.key]
       /\ last'.op = "has" =>
            /\ redis' = redis
            /\ ~last'.raised
            /\ last'.ret \in BOOLEAN
            /\ last'.ret <=> redis.data[last'.key].live]_vars

\* get returned a plain string that was put
GetHasContractWitness ==
    /\ last.op = "get"
    /\ ~last.raised
    /\ last.value = PyStr(<<"j", "1">>)

\* C11. delete(key) removes the entry, so that has(key) is false afterwards,
\* and leaves every other key alone; it raises nothing, also when the key is
\* absent, where it changes nothing; a second delete changes nothing.
DeleteIdempotent ==
    [][last'.op = "delete" =>
         /\ ~has(redis', last'.key)
         /\ ~last'.raised
         /\ \A k \in Keys \ {last'.key} : redis'.data[k] = redis.data[k]
         /\ redis'.rdep = redis.rdep /\ redis'.rttl = redis.rttl
         /\ ~redis.data[last'.key].live => redis' = redis
         /\ delete(redis', last'.key) = redis']_vars

\* a delete took an entry away whose index key stays behind with the entry's
\* full lifetime
DeleteIdempotentWitness ==
    /\ last.op = "delete"
    /\ ~has(redis, last.key)
    /\ \E d \in Deps : last.key \in Smembers(redis, d) /\ Ttl(redis, d) = MaxTTL

\* C12. Overwrite semantics: after a put, whatever was under the key and
\* whatever the expiry of the index keys, get returns the payload of this
\* put and the entry's remaining lifetime is this put's `expires`.
OverwriteSemantics ==
    [][last'.op = "put" =>
         LET K == last'.key
         IN  /\ has(redis', K)
             /\ redis'.data[K].ttl = entry'[K].ttl
             /\ IsJsonValue(entry'[K].data)
                => get(redis', K) = Returned(entry'[K].data)]_vars

\* a put gave an entry a lifetime shorter than that of its index key, which
\* an earlier put had set
OverwriteSemanticsWitness ==
    /\ last.op = "put"
    /\ redis.data["k1"].ttl = 1
    /\ get(redis, "k1") = Returned(PyInt(7))
    /\ "k1" \in Smembers(redis, "d1")
    /\ Ttl(redis, "d1") = MaxTTL


(***************************************************************************)
(* Properties of concurrent calls                                          *)
(***************************************************************************)
\* the steps of invalidate
InvPcs == {"inv_watch", "inv_read", "inv_watch2", "inv_exec"}

\* client p takes a step of invalidate
InvStep(p) ==
    /\ proc[p].pc \in InvPcs
    /\ <<proc'[p].pc, proc'[p].todo>> # <<proc[p].pc, proc[p].todo>>

\* C3: No missed invalidation under races: in every interleaving of the
\* steps of concurrent put and invalidate calls, once put(K, deps with D)
\* has completed and K's payload is live, K is a member of the reverse index
\* set of D, so that a later invalidate({D}) removes K.
NoMissedInvalidation ==
    \A K \in Keys : \A D \in Deps :
        (redis.data[K].live /\ D \in putDeps[K]) => K \in Smembers(redis, D)

\* C5: Atomic bulk invalidation: the commit of an invalidate call deletes
\* all the data keys the call resolved and the reverse-index keys of all the
\* requested dependencies in the one step, and nothing else; a conflicted
\* attempt and every other step of invalidate delete nothing.
AtomicBulkInvalidation ==
    [][\A p \in Procs : InvStep(p) =>
          IF proc[p].pc = "inv_exec" /\ ~proc[p].dirty
          THEN /\ \A k \in Keys :
                     redis'.data[k] = IF k \in proc[p].data_keys THEN NoData
                                      ELSE redis.data[k]
               /\ \A d \in Deps :
                     IF d \in proc[p].deps
                     THEN redis'.rdep[d] = {} /\ redis'.rttl[d] = -2
                     ELSE /\ redis'.rdep[d] = redis.rdep[d]
                          /\ redis'.rttl[d] = redis.rttl[d]
          ELSE redis' = redis]_vars

\* an invalidate that conflicted once has deleted, on its second attempt,
\* both entries and their index
AtomicBulkInvalidationWitness ==
    /\ proc["p2"].pc = "idle"
    /\ proc["p2"].res = "ok"
    /\ proc["p2"].attempt = 1
    /\ proc["p2"].data_keys = Keys
    /\ putDeps = [k \in Keys |-> {}]
    /\ redis = EmptyRedis

\* C7: Index outlives data: in every reachable state, for every live data
\* key K whose stored put listed dependency D, the reverse-index key of D
\* exists, contains K, and expires no earlier than K does.
IndexOutlivesData ==
    \A K \in Keys : \A D \in Deps :
        (redis.data[K].live /\ D \in putDeps[K]) =>
            /\ Ttl(redis, D) # -2
            /\ K \in Smembers(redis, D)
            /\ Ttl(redis, D) = -1 \/ Ttl(redis, D) >= redis.data[K].ttl

\* C8: Bounded, non-raising invalidate: invalidate makes at most 10
\* attempts, a call that is under way returns, and a call all of whose 10
\* attempts conflicted returns normally and has deleted nothing: no step of
\* invalidate but the commit it returns "ok" from changes the store.
BoundedInvalidate ==
    /\ [](\A p \in Procs :
            /\ proc[p].attempt <= MaxAttempts
            /\ proc[p].pc \in InvPcs => proc[p].attempt < MaxAttempts
            /\ proc[p].res \in {"none", "ok", "gave_up"}
            /\ proc[p].res = "gave_up" => proc[p].attempt = MaxAttempts)
    /\ [][\A p \in Procs : InvStep(p) =>
            /\ proc'[p].res = "gave_up" => redis' = redis
            /\ redis' # redis => proc'[p].pc = "idle" /\ proc'[p].res = "ok"]_vars
    /\ (proc["p2"].pc \in InvPcs) ~> (proc["p2"].pc = "idle")

\* an invalidate has returned after 10 conflicts, and the entry is there
BoundedInvalidateWitness ==
    /\ proc["p2"].pc = "idle"
    /\ proc["p2"].res = "gave_up"
    /\ proc["p2"].attempt = MaxAttempts
    /\ redis.data["k1"].live

(***************************************************************************)
(* Properties of Scopes (SpecScopes, SpecListing).                         *)
(***************************************************************************)
\* the dependencies in a list
Elements(list) == {list[i] : i \in DOMAIN list}

\* the extractors that are registered
Registered == Elements(scopes.sc.extractor_fns)

\* some registered extractor declares exactly these parameter names
Described(names) == \E e \in Registered : e.param_names = names

KillSwitch == InvalidateAll(scopes.sc.object_type)

\* C13. Scope fan-out: with extractors for {category} that extract the
\* category, invalidate_for(item) removes every entry that was put with the
\* dependencies of condition(category=item.category), and no other entry.
ScopeFanOut ==
    [][(/\ scopes'.out.op = "invalidate_for"
        /\ scopes.sc.extractor_fns # <<>>
        /\ \A e \in Registered :
              e.func = "by_category" /\ e.param_names = {"category"})
       => LET c == scopes'.out.item["category"]
              mine == dep_keys(
                  condition(scopes.sc, [n \in {"category"} |-> c]).ret)
          IN  \A K \in Keys : redis.data[K].live =>
                 /\ putDeps[K] = mine => ~redis'.data[K].live
                 /\ putDeps[K] # mine => redis'.data[K].live]_vars

\* C14. condition(**filter) for names that a registered extractor declares
\* exactly returns two dependencies, the ConditionalDependency of the filter
\* for this object type and the kill switch of this object type; for names
\* that no extractor declares exactly (a subset, a superset) it does not.
ConditionFound ==
    [][scopes'.out.op = "condition" =>
         LET conditions == scopes'.out.conditions
             res == scopes'.out.res
             found == /\ ~res.raised
                      /\ Len(res.ret) = 2
                      /\ res.ret[1].cls = "ConditionalDependency"
                      /\ res.ret[1].object_type = scopes.sc.object_type
                      /\ res.ret[1] = ConditionalDependency(
                                        scopes.sc.object_type, conditions)
                      /\ res.ret[2] = KillSwitch
         IN  found <=> Described(DOMAIN conditions)]_vars

\* a filter by author and category was found: the extractor was registered
\* for ('category', 'author')
ConditionFoundWitness ==
    /\ scopes.out.op = "condition"
    /\ DOMAIN scopes.out.conditions = {"author", "category"}
    /\ Len(scopes.out.res.ret) = 2

\* C15. condition(**filter) for names that no registered extractor declares:
\* in strict mode it raises and returns nothing; in lenient mode it does not
\* raise, warns, and returns the kill switch and nothing else.
ConditionNotFound ==
    [][(scopes'.out.op = "condition"
        /\ ~Described(DOMAIN scopes'.out.conditions))
       => IF scopes.sc.production_mode
          THEN scopes'.out.res = Gives(<<KillSwitch>>, TRUE)
          ELSE scopes'.out.res.raised /\ scopes'.out.res.ret = <<>>]_vars

\* in lenient mode a filter by category alone was not found although an
\* extractor for category and author is registered
ConditionNotFoundWitness ==
    /\ scopes.sc.production_mode
    /\ scopes.out.op = "condition"
    /\ DOMAIN scopes.out.conditions = {"category"}
    /\ scopes.out.res.warned
    /\ Registered # {}

\* C16. Lenient filters are always invalidated: in lenient mode an entry
\* that was put with what condition() returned for a filter that no
\* extractor describes is removed by every invalidate_for.
LenientAlwaysInvalidated ==
    [][(scopes'.out.op = "invalidate_for" /\ scopes.sc.production_mode)
       => \A K \in Keys :
             (redis.data[K].live /\ putDeps[K] = {dep_key(KillSwitch)})
             => ~redis'.data[K].live]_vars

\* C17. Kill-switch coverage: every list of dependencies that condition()
\* returns holds the kill switch, and the invalidation of the kill switch
\* removes every live entry that was put with a condition() result.
KillSwitchCoverage ==
    [][/\ (scopes'.out.op = "condition" /\ ~scopes'.out.res.raised)
          => KillSwitch \in Elements(scopes'.out.res.ret)
       /\ scopes'.out.op = "invalidate_all"
          => \A K \in Keys : ~has(redis', K)]_vars

\* the kill switch took away two listings, one of a filter that is described
\* and one of a filter that is not
KillSwitchCoverageWitness ==
    /\ scopes.out.op = "invalidate_all"
    /\ last.data_keys = Keys
    /\ \A K \in Keys : ~has(redis, K)
    /\ scopes.sc.production_mode
    /\ Registered # {}

\* C18. Registering a second extractor for parameter names that are already
\* registered raises at the registration and registers nothing: the
\* registered extractors hold one registration for every set of parameter
\* names.
UniqueRegistration ==
    \A i, j \in DOMAIN scopes.sc.extractor_fns :
        (scopes.sc.extractor_fns[i].param_names
           = scopes.sc.extractor_fns[j].param_names)
        => i = j

\* the extractors that name one of the modified fields
Watching(modified) ==
    {e \in Registered : e.watch_modified \cap modified.fields # {}}

\* the extractor does not give what it declared: it raises, or the fields it
\* returns are not its parameter names
Fails(e, item) ==
    LET got == call_extractor(e.func, item)
    IN  \/ got.kind = "raise"
        \/ got.kind = "dict" /\ DOMAIN got.params # e.param_names

\* the dependency that a working extractor contributes, if any
Contributes(e, item) ==
    LET got == call_extractor(e.func, item)
    IN  IF got.kind = "dict" /\ DOMAIN got.params = e.param_names
        THEN {ConditionalDependency(scopes.sc.object_type, got.params)}
        ELSE {}

\* C19. Extractor selection: when `modified` is given, the extractors that
\* are run are those whose watched fields intersect it, so that a given
\* collection that intersects no watched set, the empty one included, yields
\* no dependencies; all the extractors are run only when it is omitted.
ExtractorSelection ==
    [][scopes'.out.op = "object_invalidates" =>
         LET modified == scopes'.out.modified
             item == scopes'.out.item
             res == scopes'.out.res
             run == IF modified.given THEN Watching(modified) ELSE Registered
         IN  /\ run = {} => res = Gives(<<>>, FALSE)
             /\ (\A e \in run : ~Fails(e, item))
                => /\ ~res.raised
                   /\ Elements(res.ret)
                        = UNION {Contributes(e, item) : e \in run}]_vars

\* the applicable extractors: all of them when `modified` is None or empty
Applicable(modified) ==
    IF modified.given /\ modified.fields # {} THEN Watching(modified)
    ELSE Registered

\* C20 as it is claimed. Lenient extractor failure: in lenient mode, when an
\* applicable extractor fails, invalidate_for does not raise and invalidates
\* the kill switch together with the ConditionalDependency of every other
\* applicable extractor.
LenientFailureContinues ==
    [][(/\ scopes'.out.op = "object_invalidates"
        /\ scopes.sc.production_mode
        /\ \E e \in Applicable(scopes'.out.modified) :
              Fails(e, scopes'.out.item))
       => /\ ~scopes'.out.res.raised
          /\ Elements(scopes'.out.res.ret)
               = {KillSwitch}
                 \cup UNION {Contributes(e, scopes'.out.item) :
                                e \in Applicable(scopes'.out.modified)}]_vars

\* C20, amended. In lenient mode, when an applicable extractor fails (and no
\* applicable extractor before it did), object_invalidates does not raise,
\* stops, and returns the kill switch alone: what the extractors before it
\* contributed is dropped and the extractors after it are not run.
LenientFailureKillSwitchOnly ==
    [][(/\ scopes'.out.op = "object_invalidates"
        /\ scopes.sc.production_mode
        /\ \E e \in Applicable(scopes'.out.modified) :
              Fails(e, scopes'.out.item))
       => scopes'.out.res = Gives(<<KillSwitch>>, FALSE)]_vars

\* in lenient mode a failing extractor, registered after one that works,
\* made the kill switch the only dependency
LenientFailureKillSwitchOnlyWitness ==
    /\ scopes.out.op = "object_invalidates"
    /\ scopes.sc.production_mode
    /\ Len(scopes.sc.extractor_fns) = 2
    /\ ~Fails(scopes.sc.extractor_fns[1], scopes.out.item)
    /\ Contributes(scopes.sc.extractor_fns[1], scopes.out.item) # {}
    /\ Fails(scopes.sc.extractor_fns[2], scopes.out.item)
    /\ scopes.out.res.ret = <<KillSwitch>>

Orders(names) ==
    {order \in [1..Cardinality(names) -> names] : frozenset(order) = names}

\* the canonical strings of the filter, over every order of its keys
KeysOfFilter(conditions) ==
    {dep_key(ConditionalDependencyOf(scopes.sc.object_type, order,
                                     conditions)) :
        order \in Orders(DOMAIN conditions)}

\* C22. Scope condition collision: the canonical key of a
\* ConditionalDependency is the same for every order of the filter's
\* arguments, it is the key that condition() gives for the filter, and the
\* key that object_invalidates gives for an item is the key of the filter
\* with the names and values that the extractor returned.
ConditionCollision ==
    [][/\ (scopes'.out.op = "condition" /\ Len(scopes'.out.res.ret) = 2)
          => KeysOfFilter(scopes'.out.conditions)
               = {dep_key(scopes'.out.res.ret[1])}
       /\ (scopes'.out.op = "object_invalidates" /\ ~scopes'.out.res.raised)
          => \A d \in Elements(scopes'.out.res.ret) :
                d.cls = "ConditionalDependency" =>
                   \E e \in Registered :
                      LET params == call_extractor(e.func,
                                                   scopes'.out.item).params
                      IN  /\ DOMAIN params = e.param_names
                          /\ KeysOfFilter(params) = {dep_key(d)}
                          /\ dep_key(condition(scopes.sc, params).ret[1])
                               = dep_key(d)]_vars

\* an extractor for author and category gave the key of the filter by author
\* and category, with the names in sorted order
ConditionCollisionWitness ==
    /\ scopes.out.op = "object_invalidates"
    /\ \E d \in Elements(scopes.out.res.ret) :
          dep_key(d) = <<"condition", ":", "article", ":", "&", "author", "=",
                         "1", "&", "category", "=", "2", "&">>

(***************************************************************************)
(* sa_dependencies(): the primary keys of the instances of an object       *)
(* graph.  The graph is the one of the test: two articles of one author,   *)
(* and an article whose author is not set.                                 *)
(***************************************************************************)
\* the longest list of root instances
MaxRoots == 2

Instances == {"a10", "a11", "a12", "u1"}

\* Python values: an instance, a list of instances, None
Inst(i) == [t |-> "instance", v |-> i]
ListOf(items) == [t |-> "list", v |-> items]
NoneValue == [t |-> "None", v |-> <<>>]

\* inclusion values: an int, or a dict as the list of its items in order
Inc(n) == [t |-> "int", v |-> n]
Dict(items) == [t |-> "dict", v |-> items]

\* state.class_.__name__
class_name(i) == IF i = "u1" THEN "User" ELSE "Article"

\* state.identity
identity(i) ==
    IF i = "u1" THEN <<1>>
    ELSE IF i = "a10" THEN <<10>>
    ELSE IF i = "a11" THEN <<11>>
    ELSE <<12>>

\* state.mapper.relationships
relationships(i) ==
    IF class_name(i) = "User" THEN {"articles"} ELSE {"author"}

\* getattr(instance, key), for a relationship
getattr(i, key) ==
    IF key = "articles"
    THEN ListOf(<<Inst("a10"), Inst("a11")>>)
    ELSE IF i = "a12" THEN NoneValue ELSE Inst("u1")

\* str(n)
RECURSIVE str(_)
str(n) ==
    IF n < 10 THEN <<DigitChar(n)>>
    ELSE str(n \div 10) \o <<DigitChar(n % 10)>>

_instance_identity_to_str(ident) == str(ident[1])

PrimaryKey(model, ident) == [cls |-> "PrimaryKey", type |-> model, id |-> ident]

from_instance(i) ==
    PrimaryKey(class_name(i), _instance_identity_to_str(identity(i)))

\* `not include`
Falsy(include) ==
    IF include.t = "int" THEN include.v = 0 ELSE include.v = <<>>

\* what a call gives: the list, the instances seen, whether it raised
SaGives(ret, seen, raised) == [ret |-> ret, seen |-> seen, raised |-> raised]

\* a faulty variant: an instance is included every time it is visited
include_self_always(i, _seen) == <<from_instance(i)>>

\* "Include self"
include_self(i, _seen) ==
    IF i \notin _seen THEN <<from_instance(i)>> ELSE <<>>

RECURSIVE sa_dependencies(_, _, _)
RECURSIVE sa_each(_, _, _)
RECURSIVE sa_items(_, _, _)

\* sa_dependencies(item, map, _seen) for item in instance, chained
sa_each(items, map, _seen) ==
    IF items = <<>> THEN SaGives(<<>>, _seen, FALSE)
    ELSE LET h == sa_dependencies(Head(items), map, _seen)
         IN  IF h.raised THEN h
             ELSE LET t == sa_each(Tail(items), map, h.seen)
                  IN  SaGives(h.ret \o t.ret, t.seen, t.raised)

\* for key, include in map.items()
sa_items(i, items, _seen) ==
    IF items = <<>> THEN SaGives(<<>>, _seen, FALSE)
    ELSE LET key == Head(items)[1]
             include == Head(items)[2]
             h == IF Falsy(include) \/ key \notin relationships(i)
                  THEN SaGives(<<>>, _seen, FALSE)
                  ELSE sa_dependencies(getattr(i, key), include, _seen)
         IN  IF h.raised THEN h
             ELSE LET t == sa_items(i, Tail(items), h.seen)
                  IN  SaGives(h.ret \o t.ret, t.seen, t.raised)

sa_dependencies(instance, map, _seen) ==
    IF instance.t = "list" THEN sa_each(instance.v, map, _seen)
    \* instance_state(None) raises
    ELSE IF instance.t = "None" THEN SaGives(<<>>, _seen, TRUE)
    ELSE LET ret == include_self(instance.v, _seen)
             seen == _seen \cup {instance.v}
         IN  IF map.t = "dict"
             THEN LET r == sa_items(instance.v, map.v, seen)
                  IN  SaGives(ret \o r.ret, r.seen, r.raised)
             ELSE SaGives(ret, seen, FALSE)

\* the root of a call: an instance, or a list of instances
RECURSIVE ListsOf(_)
ListsOf(n) ==
    IF n = 0 THEN {<<>>}
    ELSE LET shorter == ListsOf(n - 1)
         IN  shorter \cup {Append(l, Inst(i)) : l \in shorter, i \in Instances}

Roots == {Inst(i) : i \in Instances} \cup {ListOf(l) : l \in ListsOf(MaxRoots)}

\* the plucking maps; the first one is the map of the test
Scalars == <<<<"id", Inc(1)>>, <<"title", Inc(1)>>>>
PluckMaps ==
    {Dict(Scalars \o <<<<"author",
                         Dict(<<<<"id", Inc(1)>>, <<"login", Inc(1)>>>>)>>>>),
     Dict(Scalars),
     Dict(<<>>),
     Inc(1),
     Dict(<<<<"author", Inc(0)>>, <<"id", Inc(1)>>>>),
     Dict(<<<<"author", Inc(1)>>>>),
     Dict(<<<<"author", Dict(<<>>)>>>>),
     Dict(<<<<"articles", Inc(1)>>, <<"login", Inc(1)>>>>),
     Dict(<<<<"author", Dict(<<<<"articles", Dict(Scalars)>>>>)>>>>),
     Dict(<<<<"articles", Dict(<<<<"author", Inc(1)>>>>)>>,
            <<"author", Dict(<<<<"articles", Inc(0)>>>>)>>>>)}

\* sa_dependencies has not been called
NoSaCall ==
    [op |-> "none", key |-> ListOf(<<>>), value |-> Inc(0), ret |-> <<>>,
     raised |-> FALSE]

InitSA ==
    /\ redis = EmptyRedis
    /\ putDeps = [k \in Keys |-> {}]
    /\ putData = [k \in Keys |-> PyNone]
    /\ entry = [k \in Keys |-> NoEntry]
    /\ last = NoSaCall
    /\ proc = [p \in Procs |-> Idle]
    /\ scopes = [sc |-> NewScopes("article", FALSE), out |-> NoOut]

\* calls share nothing (_seen is new in every call): a run makes one call
DoSaDependencies(root, map) ==
    LET r == sa_dependencies(root, map, {})
    IN  /\ last.op = "none"
        /\ last' = [NoSaCall EXCEPT !.op = "sa_dependencies", !.key = root,
                                    !.value = map, !.ret = r.ret,
                                    !.raised = r.raised]
        /\ UNCHANGED <<redis, putDeps, putData, entry, proc, scopes>>

NextSA == \E root \in Roots, map \in PluckMaps : DoSaDependencies(root, map)

SpecSA == InitSA /\ [][NextSA]_vars

\* a relation that the map leaves out: its inclusion value is 0 or has
\* nothing in it
Excluded(include) == include = Inc(0) \/ include = Dict(<<>>)

\* The instances in the order of the visit, an instance once for every time
\* it is reached; "None" stands for a relation that is not set.
RECURSIVE Visit(_, _)
RECURSIVE VisitEach(_, _)
RECURSIVE VisitItems(_, _)
VisitEach(items, map) ==
    IF items = <<>> THEN <<>>
    ELSE Visit(Head(items), map) \o VisitEach(Tail(items), map)

VisitItems(i, items) ==
    IF items = <<>> THEN <<>>
    ELSE LET key == Head(items)[1]
             include == Head(items)[2]
         IN  (IF key \in relationships(i) /\ ~Excluded(include)
              THEN Visit(getattr(i, key), include)
              ELSE <<>>)
             \o VisitItems(i, Tail(items))

Visit(instance, map) ==
    IF instance.t = "list" THEN VisitEach(instance.v, map)
    ELSE IF instance.t = "None" THEN <<"None">>
    ELSE <<instance.v>>
         \o (IF map.t = "dict" THEN VisitItems(instance.v, map.v) ELSE <<>>)

\* the distinct elements of a list, each at its first place
RECURSIVE FirstVisits(_)
FirstVisits(list) ==
    IF list = <<>> THEN <<>>
    ELSE LET n == Len(list)
             before == FirstVisits(SubSeq(list, 1, n - 1))
         IN  IF list[n] \in Elements(before) THEN before
             ELSE Append(before, list[n])

NextBusy ==
    \/ StartPut("p1", "k1", {"d1"}, 1, 0)
    \/ \E expires \in TTLs : StartPut("p2", "k2", {"d1"}, expires, 0)
    \/ StartInvalidate("p2", {"d1"}, 0)
    \/ \E p \in Procs : Step(p)

SpecBusy == Init /\ [][NextBusy]_vars

\* a step of a put that is under way
PutStep(p) ==
    \/ PutSadd(p)
    \/ PutWatch(p)
    \/ PutTtl(p)
    \/ PutExec(p)
    \/ PutSetex(p)

\* SpecPuts: two clients make up to MaxCalls puts in all, with one
\* dependency; no time passes and nothing is invalidated
NextPuts ==
    \/ \E p \in Procs, key \in Keys, expires \in TTLs :
          StartPut(p, key, {"d1"}, expires, MaxCalls)
    \/ \E p \in Procs : PutStep(p)

SpecPuts == Init /\ [][NextPuts]_vars

\* the steps of the loop of put that extends the TTLs
PutLoopPcs == {"put_watch", "put_ttl", "put_exec"}

\* client p returns from put
PutReturns(p) == proc[p].pc = "put_setex" /\ proc'[p].pc = "idle"

\* C24: Best-effort TTL extension: the loop of put that extends the TTLs
\* makes at most 10 attempts and does not raise; when all its attempts
\* conflicted, put has stored the payload under the data key with TTL =
\* expires, and the key is in the reverse index of every dependency.
BestEffortTTLExtension ==
    /\ [](\A p \in Procs :
            proc[p].pc \in PutLoopPcs => proc[p].attempt < MaxAttempts)
    /\ [][\A p \in Procs : PutReturns(p) =>
            /\ proc'[p].res = "ok"
            /\ proc[p].attempt = MaxAttempts =>
                  /\ redis'.data[proc[p].key].live
                  /\ redis'.data[proc[p].key].ttl = proc[p].expires
                  /\ \A dep \in proc[p].deps :
                        proc[p].key \in Smembers(redis', dep)]_vars

\* C25: No lost TTL update: while puts that share a dependency run together
\* (no time passes, none exhausts its attempts), the TTL of the reverse
\* index key is never made shorter, a put returns with that TTL at least its
\* `expires`, so that after puts with t1 < t2 it is at least t2, and a commit
\* whose watched keys another writer changed is refused and tried again.
NoLostTTLUpdate ==
    [][/\ \A dep \in Deps :
             Ttl(redis, dep) > 0 => Ttl(redis', dep) >= Ttl(redis, dep)
       /\ \A p \in Procs :
             /\ (PutReturns(p) /\ proc[p].attempt < MaxAttempts) =>
                   \A dep \in proc[p].deps :
                      Ttl(redis', dep) >= proc[p].expires
             /\ (proc[p].pc = "put_exec" /\ proc'[p].pc # "put_exec"
                 /\ proc[p].dirty) =>
                   /\ redis' = redis
                   /\ proc'[p].attempt = proc[p].attempt + 1
                   /\ proc'[p].pc = "put_watch"]_vars

\* both puts have returned, the one with the shorter TTL after a refused
\* commit, and the index key has the longer TTL
NoLostTTLUpdateWitness ==
    /\ proc["p1"].pc = "idle" /\ proc["p1"].res = "ok"
    /\ proc["p2"].pc = "idle" /\ proc["p2"].res = "ok"
    /\ proc["p1"].attempt = 1
    /\ redis.data["k1"].live /\ redis.data["k1"].ttl = 1
    /\ redis.data["k2"].live /\ redis.data["k2"].ttl = MaxTTL
    /\ Ttl(redis, "d1") = MaxTTL

\* the members that the index keys of the call hold
MembersOf(r, deps) == UNION {Smembers(r, dep) : dep \in deps}

\* the commit of client p's invalidate succeeds
InvCommits(p) ==
    proc[p].pc = "inv_exec" /\ proc'[p].pc # "inv_exec" /\ ~proc[p].dirty

\* what every commit and every refused commit of invalidate does
CommitEffects(p) ==
    /\ InvCommits(p) =>
          /\ proc'[p].pc = "idle" /\ proc'[p].res = "ok"
          /\ \A k \in proc[p].data_keys : ~redis'.data[k].live
          /\ \A dep \in proc[p].deps : Ttl(redis', dep) = -2
          /\ \A dep \in proc[p].deps :
                \A k \in Smembers(redis, dep) : ~redis'.data[k].live
    /\ (proc[p].pc = "inv_exec" /\ proc'[p].pc # "inv_exec"
        /\ proc[p].dirty) =>
          /\ redis' = redis
          /\ proc'[p].attempt = proc[p].attempt + 1

\* a put of another client that adds a member to a watched index key or
\* writes a watched data key makes the attempt of p fail
PutConflicts(p) ==
    \A q \in Procs \ {p} :
       (/\ proc[q].pc \in {"put_sadd", "put_setex"}
        /\ proc'[q] # proc[q]
        /\ \/ \E dep \in Deps : /\ _key("rdep", dep) \in proc[p].watching
                                /\ redis'.rdep[dep] # redis.rdep[dep]
           \/ /\ proc[q].pc = "put_setex"
              /\ _key("data", proc[q].key) \in proc[p].watching)
       => proc'[p].dirty

\* C26 as stated: Commit consistency of invalidate: a commit that succeeds
\* deletes exactly the members that the deleted index keys hold at the time
\* of the commit; a put that changes a watched key makes the attempt fail and
\* be tried again; no index key is deleted while a member's data key stays.
CommitConsistency ==
    [][\A p \in Procs :
          /\ CommitEffects(p)
          /\ PutConflicts(p)
          /\ InvCommits(p) =>
                proc[p].data_keys = MembersOf(redis, proc[p].deps)]_vars

\* C26, amended: the data keys that a successful commit deletes include the
\* members that the deleted index keys hold at the time of the commit; they
\* are the members that were read, and an index key that expired after the
\* read holds none of them any more.
CommitCoversMembers ==
    [][\A p \in Procs :
          /\ CommitEffects(p)
          /\ PutConflicts(p)
          /\ InvCommits(p) =>
                MembersOf(redis, proc[p].deps) \subseteq proc[p].data_keys]_vars

\* an invalidate has committed after an attempt that a put made fail
CommitCoversMembersWitness ==
    /\ proc["p2"].pc = "idle"
    /\ proc["p2"].res = "ok"
    /\ proc["p2"].attempt = 1
    /\ proc["p2"].data_keys # {}

(***************************************************************************)
(* Properties of the reverse index, for one client (SpecData).             *)
(***************************************************************************)
\* C27: Index frame conditions: get, has and delete leave every reverse
\* index set as it is; put only adds members; a member leaves an index set
\* only when invalidate deletes the whole index key or when the index key
\* expires.
IndexFrame ==
    [][/\ last'.op \in {"get", "has", "delete"} =>
             redis'.rdep = redis.rdep /\ redis'.rttl = redis.rttl
       /\ last'.op = "put" =>
             \A dep \in DOMAIN redis.rdep :
                redis.rdep[dep] \subseteq redis'.rdep[dep]
       /\ \A dep \in DOMAIN redis.rdep :
             ~(redis.rdep[dep] \subseteq redis'.rdep[dep]) =>
                /\ last'.op \in {"invalidate", "tick"}
                /\ redis'.rdep[dep] = {}
                /\ Ttl(redis', dep) = -2]_vars

\* a key was deleted and is still a member of the index set that listed it
IndexFrameWitness ==
    /\ last.op = "delete"
    /\ last.key = "k1"
    /\ ~redis.data["k1"].live
    /\ "k1" \in Smembers(redis, "d1")

\* C28: Index cleanup: after invalidate(deps), no reverse index key exists
\* for a dependency in deps: it was deleted together with the data keys that
\* it held, or it was not there; a data key that an index set holds and that
\* is gone does not make invalidate fail, and counts for nothing in the
\* reply of UNLINK.
IndexCleanup ==
    [][last'.op = "invalidate" =>
          /\ ~last'.raised
          /\ \A dep \in last'.deps :
                Ttl(redis', dep) = -2 /\ Smembers(redis', dep) = {}
          /\ \A k \in last'.data_keys : ~redis'.data[k].live
          /\ last'.data_keys = UNION {redis.rdep[dep] : dep \in last'.deps}
          /\ last'.unlinked =
                Cardinality({k \in Keys : redis.data[k].live
                                          /\ ~redis'.data[k].live})
                + Cardinality({dep \in Deps : redis.rttl[dep] # -2
                                              /\ redis'.rttl[dep] = -2})]_vars

\* invalidate has deleted an index key whose only member was gone already:
\* the index key is the one key that UNLINK removed
IndexCleanupWitness ==
    /\ last.op = "invalidate"
    /\ last.deps = {"d1"}
    /\ last.data_keys = {"k1"}
    /\ last.unlinked = 1
    /\ Ttl(redis, "d1") = -2

\* the records of the last call of client p that tell of a success
SuccessRecords(pr) ==
    {i \in DOMAIN pr.log : pr.log[i].message = "Invalidated data keys"}

\* C29: Exhausted invalidation is logged: with logging enabled, an
\* invalidate that gives up after 10 conflicting attempts has emitted a log
\* record of the failure when it returns, and no record of a success; a
\* record of a success is emitted only by a call that returns "ok".
ExhaustedInvalidationLogged ==
    [][\A p \in Procs : (InvStep(p) /\ proc[p].log_enabled) =>
          /\ proc'[p].res = "gave_up" =>
                /\ proc'[p].log # <<>>
                /\ SuccessRecords(proc'[p]) = {}
          /\ SuccessRecords(proc'[p]) # {} => proc'[p].res = "ok"]_vars

\* client p takes a step of put before the payload is written
PutIndexStep(p) ==
    /\ proc[p].pc \in {"put_sadd"} \cup PutLoopPcs
    /\ <<proc'[p].pc, proc'[p].todo, proc'[p].attempt>>
          # <<proc[p].pc, proc[p].todo, proc[p].attempt>>

\* C30: Put step order: while no invalidate is called, the steps of a put
\* that add the key to the index sets and extend the TTLs leave the payloads
\* as they are, and when the put writes the payload, its last step, the key
\* is a member of the reverse index set of every one of its dependencies: a
\* put leaves dangling index members at most, never a payload without index.
PutStepOrder ==
    [][proc["p2"].calls = 0 =>
          \A p \in Procs :
             /\ PutIndexStep(p) => redis'.data = redis.data
             /\ PutReturns(p) =>
                   /\ redis'.data[proc[p].key].live
                   /\ \A dep \in proc[p].deps :
                         proc[p].key \in Smembers(redis', dep)]_vars

(***************************************************************************)
(* The algebra of invalidate, for one client (Spec).                       *)
(***************************************************************************)
\* the longest list of dependencies that invalidate is given
MaxArgs == 3

\* the lists of at most MaxArgs dependencies that name exactly `deps`
ArgLists(deps) ==
    {list \in UNION {[1..n -> deps] : n \in 0..MaxArgs} : deps_of(list) = deps}

\* C31: Algebra of invalidate: after invalidate(deps), a second
\* invalidate(deps) changes nothing and deletes nothing; invalidate(A \cup B)
\* leaves the data keys and the index keys that invalidate(A) followed by
\* invalidate(B) leaves, in either order; and a list of dependencies with
\* repetitions does what the list without them does.
InvalidateAlgebra ==
    [][last'.op = "invalidate" =>
          /\ redis' = invalidate(redis, last'.deps)
          /\ invalidate(redis', last'.deps) = redis'
          /\ unlinked(redis', last'.deps) = 0
          /\ \A A \in SUBSET last'.deps, B \in SUBSET last'.deps :
                A \cup B = last'.deps =>
                   invalidate(invalidate(redis, A), B) = redis'
          /\ \A list \in ArgLists(last'.deps) :
                invalidate(redis, deps_of(list)) = redis']_vars

\* invalidate of two dependencies has deleted two entries and two index keys
InvalidateAlgebraWitness ==
    /\ last.op = "invalidate"
    /\ last.deps = {"d1", "d2"}
    /\ last.data_keys = {"k1", "k2"}
    /\ last.unlinked = 4

=============================================================================
